---- MODULE Spec2Model ----
(***************************************************************************)
(* A model of src/util.py: the Timer stopwatch, the LogStep/Logger         *)
(* collection, the Config singleton and the metadata builders with their   *)
(* host-environment probes.                                                *)
(*                                                                         *)
(* Python's None is the empty tuple and a present value v is <<v>>, so     *)
(* that an optional value is always comparable.  Floats (timestamps, times *)
(* and losses) are integers in an arbitrary unit.                          *)
(***************************************************************************)
EXTENDS Integers, Sequences, FiniteSets, TLC

\* ------------------------------------------------------------------ bounds
\* last clock reading the model explores
MaxTime == 4
\* largest advance of the clock between two consecutive reads
MaxStep == 2
\* number of Timer calls in one explored run
MaxCalls == 5

\* ----------------------------------------------------------------- helpers
None == <<>>
Some(v) == <<v>>

VARIABLES
    \* Timer fields
    start_time, last_record, end_time,
    \* the host clock: the latest value time.time() has returned
    now,
    \* the calls made on the Timer so far, each with its outcome:
    \* [op, exc, ret] with exc = "none" when the call returned
    t_trace

timerVars == <<start_time, last_record, end_time, now, t_trace>>

\* time.time(): a reading not before the previous one `from` (the system
\* clock is taken not to be set back while the Timer is in use)
ClockRead(from) == {t \in from..(from + MaxStep) : t <= MaxTime}

Call(op, exc, ret) == [op |-> op, exc |-> exc, ret |-> ret]

\* Timer.__init__
TimerInit ==
    /\ start_time = None
    /\ last_record = None
    /\ end_time = None
    /\ now = 0
    /\ t_trace = <<>>

\* Timer.start without its guard: a second start() restarts the stopwatch
TimerStartRestarts ==
    /\ Len(t_trace) < MaxCalls
    /\ \E t1 \in ClockRead(now) : \E t2 \in ClockRead(t1) :
        /\ start_time' = Some(t1)
        /\ last_record' = Some(t2)
        /\ now' = t2
        /\ t_trace' = Append(t_trace, Call("start", "none", None))
        /\ UNCHANGED end_time

\* Timer.start
TimerStart ==
    /\ Len(t_trace) < MaxCalls
    /\ IF start_time # None
       THEN /\ t_trace' = Append(t_trace, Call("start", "RuntimeError", None))
            /\ UNCHANGED <<start_time, last_record, end_time, now>>
       ELSE \E t1 \in ClockRead(now) : \E t2 \in ClockRead(t1) :
            /\ start_time' = Some(t1)
            /\ last_record' = Some(t2)
            /\ now' = t2
            /\ t_trace' = Append(t_trace, Call("start", "none", None))
            /\ UNCHANGED end_time

\* Timer.stop that forgets to reset start_time
TimerStopKeepsStart ==
    /\ Len(t_trace) < MaxCalls
    /\ IF start_time = None
       THEN /\ t_trace' = Append(t_trace, Call("stop", "RuntimeError", None))
            /\ UNCHANGED <<start_time, last_record, end_time, now>>
       ELSE \E t \in ClockRead(now) :
            LET end_time_1 == Some(t)
                elapsed_time == end_time_1[1] - start_time[1]
            IN  /\ end_time' = None
                /\ last_record' = None
                /\ now' = t
                /\ t_trace' = Append(t_trace, Call("stop", "none", Some(elapsed_time)))
                /\ UNCHANGED start_time

\* Timer.stop that measures from the latest record() instead of start()
TimerStopSinceRecord ==
    /\ Len(t_trace) < MaxCalls
    /\ IF start_time = None
       THEN /\ t_trace' = Append(t_trace, Call("stop", "RuntimeError", None))
            /\ UNCHANGED <<start_time, last_record, end_time, now>>
       ELSE \E t \in ClockRead(now) :
            LET end_time_1 == Some(t)
                elapsed_time == end_time_1[1] - last_record[1]
            IN  /\ start_time' = None
                /\ end_time' = None
                /\ last_record' = None
                /\ now' = t
                /\ t_trace' = Append(t_trace, Call("stop", "none", Some(elapsed_time)))

\* Timer.stop that forgets to reset last_record
TimerStopKeepsLastRecord ==
    /\ Len(t_trace) < MaxCalls
    /\ IF start_time = None
       THEN /\ t_trace' = Append(t_trace, Call("stop", "RuntimeError", None))
            /\ UNCHANGED <<start_time, last_record, end_time, now>>
       ELSE \E t \in ClockRead(now) :
            LET end_time_1 == Some(t)
                elapsed_time == end_time_1[1] - start_time[1]
            IN  /\ start_time' = None
                /\ end_time' = None
                /\ now' = t
                /\ t_trace' = Append(t_trace, Call("stop", "none", Some(elapsed_time)))
                /\ UNCHANGED last_record

\* Timer.stop; end_time is set and cleared again within the call
TimerStop ==
    /\ Len(t_trace) < MaxCalls
    /\ IF start_time = None
       THEN /\ t_trace' = Append(t_trace, Call("stop", "RuntimeError", None))
            /\ UNCHANGED <<start_time, last_record, end_time, now>>
       ELSE \E t \in ClockRead(now) :
            LET end_time_1 == Some(t)
                elapsed_time == end_time_1[1] - start_time[1]
            IN  /\ start_time' = None
                /\ end_time' = None
                /\ last_record' = None
                /\ now' = t
                /\ t_trace' = Append(t_trace, Call("stop", "none", Some(elapsed_time)))

\* Timer.record that returns 0 on an Idle Timer instead of raising
TimerRecordLenient ==
    /\ Len(t_trace) < MaxCalls
    /\ IF last_record = None
       THEN /\ t_trace' = Append(t_trace, Call("record", "none", Some(0)))
            /\ UNCHANGED <<start_time, last_record, end_time, now>>
       ELSE \E current \in ClockRead(now) : \E t2 \in ClockRead(current) :
            LET elapsed_time == current - last_record[1]
            IN  /\ last_record' = Some(t2)
                /\ now' = t2
                /\ t_trace' = Append(t_trace, Call("record", "none", Some(elapsed_time)))
                /\ UNCHANGED <<start_time, end_time>>

\* Timer.record that stamps last_record before it tests the state
TimerRecordStampsFirst ==
    /\ Len(t_trace) < MaxCalls
    /\ IF last_record = None
       THEN \E t \in ClockRead(now) :
            /\ last_record' = Some(t)
            /\ now' = t
            /\ t_trace' = Append(t_trace, Call("record", "RuntimeError", None))
            /\ UNCHANGED <<start_time, end_time>>
       ELSE \E current \in ClockRead(now) : \E t2 \in ClockRead(current) :
            LET elapsed_time == current - last_record[1]
            IN  /\ last_record' = Some(t2)
                /\ now' = t2
                /\ t_trace' = Append(t_trace, Call("record", "none", Some(elapsed_time)))
                /\ UNCHANGED <<start_time, end_time>>

\* Timer.record that subtracts the wrong way round
TimerRecordSwapped ==
    /\ Len(t_trace) < MaxCalls
    /\ IF last_record = None
       THEN /\ t_trace' = Append(t_trace, Call("record", "RuntimeError", None))
            /\ UNCHANGED <<start_time, last_record, end_time, now>>
       ELSE \E current \in ClockRead(now) : \E t2 \in ClockRead(current) :
            LET elapsed_time == last_record[1] - current
            IN  /\ last_record' = Some(t2)
                /\ now' = t2
                /\ t_trace' = Append(t_trace, Call("record", "none", Some(elapsed_time)))
                /\ UNCHANGED <<start_time, end_time>>

\* Timer.record
TimerRecord ==
    /\ Len(t_trace) < MaxCalls
    /\ IF last_record = None
       THEN /\ t_trace' = Append(t_trace, Call("record", "RuntimeError", None))
            /\ UNCHANGED <<start_time, last_record, end_time, now>>
       ELSE \E current \in ClockRead(now) : \E t2 \in ClockRead(current) :
            LET elapsed_time == current - last_record[1]
            IN  /\ last_record' = Some(t2)
                /\ now' = t2
                /\ t_trace' = Append(t_trace, Call("record", "none", Some(elapsed_time)))
                /\ UNCHANGED <<start_time, end_time>>

\* ------------------------------------------------------ LogStep and Logger
\* bounds: LogStep objects the caller constructs, length of Logger.steps
MaxObjs == 2
MaxSteps == 2

FieldNames == {"epoch", "eval_acc", "sample_time", "load_time", "forward_time",
               "backward_time", "cur_epoch_time", "acc_epoch_time",
               "evaluate_time", "loss"}

\* LogStep.__init__ (generated by @dataclass): the instance's __dict__
LogStep(epoch, eval_acc, sample_time, load_time, forward_time, backward_time, cur_epoch_time, acc_epoch_time, evaluate_time, loss) ==
    [epoch |-> epoch, eval_acc |-> eval_acc, sample_time |-> sample_time,
     load_time |-> load_time, forward_time |-> forward_time,
     backward_time |-> backward_time, cur_epoch_time |-> cur_epoch_time,
     acc_epoch_time |-> acc_epoch_time, evaluate_time |-> evaluate_time,
     loss |-> loss]

\* the LogSteps a caller builds (times in ms, accuracy and loss in 1/100);
\* the third repeats an epoch and the epochs are appended in any order
StepInputs == {LogStep(0, 30, 1, 2, 3, 4, 10, 10, 5, 120),
               LogStep(1, 40, 1, 2, 3, 4, 11, 21, 5, 100),
               LogStep(0, 35, 2, 2, 3, 4, 12, 33, 6, 110)}

\* the field and the values a caller assigns after construction (every
\* field of a LogStep is assignable in the same way)
WriteFields == {"loss"}
WriteValue(f) == IF f = "epoch" THEN 7 ELSE 999

VARIABLES
    \* the LogStep objects that exist: objs[id] is the __dict__ of object id
    objs,
    \* Logger.steps: references (ids) to LogStep objects
    steps,
    \* the list object the latest list() call returned, in the caller's
    \* hands: references to the __dict__ of the LogSteps
    held,
    \* the values each LogStep had when it was appended, in append order
    appended,
    \* some stored LogStep was assigned to after it was appended
    dirty,
    \* the latest Logger call, "" | "append" | "list"
    l_op,
    \* the records as the latest list() returned them, and as the first
    \* list() since the latest append returned them
    l_ret, l_first

loggerVars == <<objs, steps, held, appended, dirty, l_op, l_ret, l_first>>

Range(s) == {s[i] : i \in DOMAIN s}

\* the records a list of references shows when it is read
Deref(refs) == [i \in DOMAIN refs |-> objs[refs[i]]]

\* Logger.__init__
LoggerInit ==
    /\ objs = <<>>
    /\ steps = <<>>
    /\ held = None
    /\ appended = <<>>
    /\ dirty = FALSE
    /\ l_op = ""
    /\ l_ret = None
    /\ l_first = None

\* the caller constructs a LogStep
NewLogStep(v) ==
    /\ Len(objs) < MaxObjs
    /\ objs' = Append(objs, v)
    /\ UNCHANGED <<steps, held, appended, dirty, l_op, l_ret, l_first>>

\* Logger.append that skips a step whose epoch is already logged
LoggerAppendDedup(step) ==
    /\ Len(steps) < MaxSteps
    /\ steps' = IF \E i \in DOMAIN steps : objs[steps[i]].epoch = objs[step].epoch
                THEN steps
                ELSE Append(steps, step)
    /\ appended' = Append(appended, objs[step])
    /\ l_op' = "append"
    /\ l_ret' = None
    /\ l_first' = None
    /\ UNCHANGED <<objs, held, dirty>>

\* Logger.append(step)
LoggerAppend(step) ==
    /\ Len(steps) < MaxSteps
    /\ steps' = Append(steps, step)
    /\ appended' = Append(appended, objs[step])
    /\ l_op' = "append"
    /\ l_ret' = None
    /\ l_first' = None
    /\ UNCHANGED <<objs, held, dirty>>

\* LogStep.dict: the object's own __dict__, not a copy
dict(self) == self

\* Logger.list: a new list of the steps' __dict__s
LoggerList ==
    LET ret == [i \in 1..Len(steps) |-> dict(steps[i])]
    IN  /\ held' = Some(ret)
        /\ l_op' = "list"
        /\ l_ret' = Some(Deref(ret))
        /\ l_first' = IF l_first = None THEN Some(Deref(ret)) ELSE l_first
        /\ UNCHANGED <<objs, steps, appended, dirty>>
    
\* the caller assigns a field of a LogStep it holds (LogStep is a plain,
\* unfrozen dataclass): step.f = v
SetAttr(step, f, v) ==
    /\ objs[step][f] # v
    /\ objs' = [objs EXCEPT ![step][f] = v]
    /\ dirty' = (dirty \/ step \in Range(steps))
    /\ UNCHANGED <<steps, held, appended, l_op, l_ret, l_first>>

\* the caller assigns into a record that list() returned: ret[i][f] = v
SetItem(i, f, v) ==
    /\ held # None
    /\ i \in DOMAIN held[1]
    /\ objs[held[1][i]][f] # v
    /\ objs' = [objs EXCEPT ![held[1][i]][f] = v]
    /\ dirty' = (dirty \/ held[1][i] \in Range(steps))
    /\ UNCHANGED <<steps, held, appended, l_op, l_ret, l_first>>

\* the caller removes the last entry of the list that list() returned
ListPop ==
    /\ held # None
    /\ held[1] # <<>>
    /\ held' = Some(SubSeq(held[1], 1, Len(held[1]) - 1))
    /\ UNCHANGED <<objs, steps, appended, dirty, l_op, l_ret, l_first>>

\* ------------------------------------------------- Config and its singleton
\* bound: set_global_config / get_args calls in one explored run
MaxSets == 3

\* Config.__init__: the attributes the constructor assigns from args
Config(args) ==
    [sample_mode |-> args.sample_mode,
     batch_size |-> args.batch_size,
     fanouts |-> args.fanouts,
     num_epoch |-> args.num_epoch,
     hid_size |-> args.hid_size,
     num_layers |-> args.num_layers,
     num_head |-> args.num_head,
     lr |-> args.lr,
     weight_decay |-> args.weight_decay,
     dropout |-> args.dropout,
     num_partition |-> args.num_partition,
     graph_name |-> args.graph_name,
     data_dir |-> args.data_dir,
     model |-> args.model,
     log_file |-> args.log_file,
     eval |-> args.eval]

\* get_args: the namespace parse_args() returns; the options not given on
\* the command line have the parser's defaults (lr in 1/1000, weight_decay
\* in 1/10000, dropout in 1/10)
Args(batch_size, fanouts, num_partition, graph_name) ==
    [sample_mode |-> "gpu", batch_size |-> batch_size, fanouts |-> fanouts,
     num_epoch |-> 1, hid_size |-> 256, num_layers |-> 3, num_head |-> 4,
     lr |-> 5, weight_decay |-> 5, dropout |-> 5, world_size |-> 1,
     num_partition |-> num_partition, graph_name |-> graph_name,
     data_dir |-> "/data", model |-> "gat", log_file |-> "log.json",
     eval |-> TRUE]

\* the command lines explored; the first is the one of all defaults
DefaultArgs == Args(1024, <<15, 15, 15>>, 1, "ogbn-arxiv")
ArgsInputs == {DefaultArgs,
               Args(512, <<10, 25>>, 4, "reddit"),
               Args(1024, <<10, 25>>, 4, "ogbn-arxiv"),
               Args(512, <<15, 15, 15>>, 1, "reddit")}

Configs == {Config(a) : a \in ArgsInputs}

VARIABLES
    \* the module global gconfig: None or a Config
    gconfig,
    \* the values passed to set_global_config so far, in call order
    registered,
    \* the latest singleton call, "" | "set" | "get", and what get returned
    c_op, c_ret,
    \* the latest get_args() call: the namespace parse_args() gave and the
    \* Config get_args() returned; None before any
    c_built

configVars == <<gconfig, registered, c_op, c_ret, c_built>>

\* the fields the Config dataclass declares
DeclaredFields == {"sample_mode", "batch_size", "fanouts", "num_epoch", "hid_size",
                   "num_head", "lr", "weight_decay", "dropout", "world_size",
                   "num_partition", "graph_name", "data_dir", "model", "log_file",
                   "eval"}

\* module load: gconfig = None
ConfigInit ==
    /\ gconfig = None
    /\ registered = <<>>
    /\ c_op = ""
    /\ c_ret = None
    /\ c_built = None

\* Config.set_global_config without its `global` statement: the assignment
\* binds a local name and the module global keeps its value
SetGlobalConfigLocal(config) ==
    /\ Len(registered) < MaxSets
    /\ registered' = Append(registered, config)
    /\ c_op' = "set"
    /\ UNCHANGED <<gconfig, c_ret>>

\* Config.set_global_config(config)
SetGlobalConfig(config) ==
    /\ Len(registered) < MaxSets
    /\ gconfig' = Some(config)
    /\ registered' = Append(registered, config)
    /\ c_op' = "set"
    /\ UNCHANGED c_ret

\* Config.get_global_config()
GetGlobalConfig ==
    /\ c_ret' = gconfig
    /\ c_op' = "get"
    /\ UNCHANGED <<gconfig, registered>>

\* get_args(): builds the Config from the parsed arguments and registers it
GetArgs(args) ==
    LET config == Config(args)
    IN  /\ SetGlobalConfig(config)
        /\ c_built' = Some([args |-> args, config |-> config])

\* --------------------------------------------------------- strings, probes
\* A Python str is a sequence of one-character strings.
IsSpace(c) == c \in {" ", "\n", "\t"}

SetMin(S) == CHOOSE m \in S : \A n \in S : m <= n
SetMax(S) == CHOOSE m \in S : \A n \in S : n <= m

\* str.strip()
Strip(s) ==
    LET keep == {i \in DOMAIN s : ~IsSpace(s[i])}
    IN  IF keep = {} THEN <<>> ELSE SubSeq(s, SetMin(keep), SetMax(keep))

\* str.find(sub): the lowest 0-based index where sub starts, -1 if nowhere
Find(s, sub) ==
    LET at == {i \in 0..(Len(s) - Len(sub)) : SubSeq(s, i + 1, i + Len(sub)) = sub}
    IN  IF at = {} THEN -1 ELSE SetMin(at)

\* s[k:] for k >= 0
SliceFrom(s, k) == SubSeq(s, k + 1, Len(s))

\* str.split(sep) for a one-character sep: always at least one piece
RECURSIVE Split(_, _)
Split(s, sep) ==
    LET at == {i \in DOMAIN s : s[i] = sep}
    IN  IF at = {} THEN <<s>>
        ELSE <<SubSeq(s, 1, SetMin(at) - 1)>> \o Split(SliceFrom(s, SetMin(at)), sep)

\* the key get_cpu_model searches for: 'Model name:'
ModelNameKey ==
    <<"M", "o", "d", "e", "l", " ", "n", "a", "m", "e", ":">>

\* lscpu output with a model name: 'Arch: x86\nModel name:  EPYC 7\nCPU(s): 8\n'
LscpuEpyc ==
    <<"A", "r", "c", "h", ":", " ", "x", "8", "6", "\n", "M", "o", "d",
      "e", "l", " ", "n", "a", "m", "e", ":", " ", " ", "E", "P", "Y", "C",
      " ", "7", "\n", "C", "P", "U", "(", "s", ")", ":", " ", "8", "\n">>

\* lscpu output whose "Model name:" line carries no value: 'Arch: arm\nModel name:\nCPU(s): 4\n'
LscpuNoValue ==
    <<"A", "r", "c", "h", ":", " ", "a", "r", "m", "\n", "M", "o", "d",
      "e", "l", " ", "n", "a", "m", "e", ":", "\n", "C", "P", "U", "(",
      "s", ")", ":", " ", "4", "\n">>

\* lscpu output without a "Model name:" line: 'Arch: riscv\nCPU(s): 2\n'
LscpuNoModel ==
    <<"A", "r", "c", "h", ":", " ", "r", "i", "s", "c", "v", "\n", "C",
      "P", "U", "(", "s", ")", ":", " ", "2", "\n">>

\* nvidia-smi output, two GPUs: 'A100\nA100\n'
SmiTwoGpus ==
    <<"A", "1", "0", "0", "\n", "A", "1", "0", "0", "\n">>

\* nvidia-smi output, one GPU: 'T4\n'
SmiOneGpu ==
    <<"T", "4", "\n">>

\* nvidia-smi output when the host has no GPU: no line at all
SmiNoGpu == <<>>

\* what running lscpu through the shell can give: its output with exit
\* status 0, a failure status of lscpu, or the shell's 127 when lscpu is
\* not installed
LscpuRuns ==
    {[returncode |-> 0, stdout |-> t] : t \in {LscpuEpyc, LscpuNoValue, LscpuNoModel}}
    \cup {[returncode |-> 1, stdout |-> <<>>], [returncode |-> 127, stdout |-> <<>>]}

\* what running nvidia-smi directly can give: found = FALSE when the
\* executable does not exist
NvidiaRuns ==
    {[found |-> TRUE, returncode |-> 0, stdout |-> t] : t \in {SmiTwoGpus, SmiOneGpu, SmiNoGpu}}
    \cup {[found |-> TRUE, returncode |-> 9, stdout |-> <<>>],
          [found |-> FALSE, returncode |-> 0, stdout |-> <<>>]}

\* the outcome of a call: a returned value or a raised exception
Return(v) == [exc |-> "none", val |-> Some(v)]
Raise(e) == [exc |-> e, val |-> None]

\* subprocess.check_output(cmd, shell=True): raises on a non-zero status
check_output(run) ==
    IF run.returncode # 0 THEN Raise("CalledProcessError") ELSE Return(run.stdout)

\* subprocess.run([...]): raises when the executable is not found
subprocess_run(run) ==
    IF ~run.found THEN Raise("FileNotFoundError") ELSE Return(run)

\* get_cuda_gpu_model
get_cuda_gpu_model(nvidia) ==
    LET result == subprocess_run(nvidia)
    IN  IF result.exc = "FileNotFoundError" THEN Return(<<>>)
        ELSE IF result.val[1].returncode # 0 THEN Return(<<>>)
        ELSE Return(Split(Strip(result.val[1].stdout), "\n"))

\* get_cpu_model
get_cpu_model(lscpu) ==
    LET out == check_output(lscpu)
    IN  IF out.exc # "none" THEN out
        ELSE LET ret == Strip(out.val[1])
                 idx == Find(ret, ModelNameKey)
                 cpu_model == Split(Strip(SliceFrom(ret, idx + 11)), "\n")[1]
             IN  Return(cpu_model)

\* ---------------------------------------------------- Dataset and builders
\* a torch.Tensor: the device it lives on and its shape
Tensor(device, shape) == [device |-> device, shape |-> shape]

\* a dgl.DGLGraph: what num_nodes() and num_edges() return
Graph(num_nodes, num_edges) == [num_nodes |-> num_nodes, num_edges |-> num_edges]

\* Dataset.__init__
Dataset(graph, feat, label, train_mask, val_mask, test_mask, num_classes, in_feats) ==
    [graph |-> graph, feat |-> feat, label |-> label, train_mask |-> train_mask,
     val_mask |-> val_mask, test_mask |-> test_mask, num_classes |-> num_classes,
     in_feats |-> in_feats]

\* load_dataset: a Dataset of n nodes, e edges and feature width w; with
\* topo_only the feature tensor is dropped
LoadedDataset(n, e, w, topo_only) ==
    Dataset(Graph(n, e),
            IF topo_only THEN None ELSE Some(Tensor("cpu", <<n, w>>)),
            Tensor("cpu", <<n>>), Tensor("cpu", <<n \div 2>>),
            Tensor("cpu", <<n \div 4>>), Tensor("cpu", <<n \div 4>>), 3, w)

Datasets == {LoadedDataset(10, 20, 8, FALSE), LoadedDataset(4, 7, 3, TRUE)}

\* the Datasets and devices the device transfer is explored on
DataInputs == {LoadedDataset(n, e, w, t) : n \in {10, 4}, e \in {20, 7}, w \in {8, 3},
                                           t \in BOOLEAN}
Devices == {"cpu", "cuda:0", "cuda:1"}

\* torch.Tensor.to(device): the tensor's data on the target device
TensorTo(t, device) == [t EXCEPT !.device = device]

VARIABLES
    \* the Dataset object the caller holds
    d_data,
    \* the latest Dataset call, "load" | "to", the device given to to() and
    \* the Dataset's fields as they were before the latest call
    d_op, d_device, d_before

dataVars == <<d_data, d_op, d_device, d_before>>

\* load_dataset has returned the default Dataset
DataInit ==
    /\ d_data = LoadedDataset(10, 20, 8, FALSE)
    /\ d_op = "load"
    /\ d_device = "cpu"
    /\ d_before = LoadedDataset(10, 20, 8, FALSE)

\* load_dataset(config, topo_only): the caller takes a newly loaded Dataset
LoadDataset(data) ==
    /\ d_data' = data
    /\ d_op' = "load"
    /\ d_before' = d_data
    /\ UNCHANGED d_device

\* Dataset.to that moves the feature tensor as well when there is one
DatasetToAll(device) ==
    /\ d_data' = [d_data EXCEPT !.label = TensorTo(d_data.label, device),
                                !.train_mask = TensorTo(d_data.train_mask, device),
                                !.val_mask = TensorTo(d_data.val_mask, device),
                                !.test_mask = TensorTo(d_data.test_mask, device),
                                !.feat = IF d_data.feat = None THEN None
                                         ELSE Some(TensorTo(d_data.feat[1], device))]
    /\ d_op' = "to"
    /\ d_device' = device
    /\ d_before' = d_data

\* Dataset.to(device)
DatasetTo(device) ==
    /\ d_data' = [d_data EXCEPT !.label = TensorTo(d_data.label, device),
                                !.train_mask = TensorTo(d_data.train_mask, device),
                                !.val_mask = TensorTo(d_data.val_mask, device),
                                !.test_mask = TensorTo(d_data.test_mask, device)]
    /\ d_op' = "to"
    /\ d_device' = device
    /\ d_before' = d_data

\* get_train_meta
get_train_meta(config) ==
    Return([weight_decay |-> config.weight_decay,
            learning_rate |-> config.lr,
            dropout |-> config.dropout])

\* get_full_meta
get_full_meta(config, data, lscpu) ==
    LET cpu == get_cpu_model(lscpu)
    IN  IF cpu.exc # "none" THEN cpu
        ELSE Return([graph_name |-> config.graph_name,
                     train_mode |-> "full",
                     cpu_model |-> cpu.val[1],
                     num_node |-> data.graph.num_nodes,
                     num_edge |-> data.graph.num_edges,
                     feat_width |-> data.in_feats,
                     num_epoch |-> config.num_epoch,
                     num_partition |-> config.num_partition])

\* get_minibatch_meta
get_minibatch_meta(config, data, lscpu) ==
    LET cpu == get_cpu_model(lscpu)
    IN  IF cpu.exc # "none" THEN cpu
        ELSE Return([graph_name |-> config.graph_name,
                     train_mode |-> "minibatch",
                     num_node |-> data.graph.num_nodes,
                     num_edge |-> data.graph.num_edges,
                     cpu_model |-> cpu.val[1],
                     feat_width |-> data.in_feats,
                     batch_size |-> config.batch_size,
                     fanouts |-> config.fanouts,
                     num_epoch |-> config.num_epoch,
                     num_partition |-> config.num_partition])

\* get_quiver_meta
get_quiver_meta(config, data, lscpu, nvidia) ==
    LET cpu == get_cpu_model(lscpu)
        gpu == get_cuda_gpu_model(nvidia)
    IN  IF cpu.exc # "none" THEN cpu
        ELSE Return([graph_name |-> config.graph_name,
                     system_name |-> "quiver",
                     train_mode |-> "minibatch",
                     sample_mode |-> config.sample_mode,
                     num_node |-> data.graph.num_nodes,
                     num_edge |-> data.graph.num_edges,
                     cpu_model |-> cpu.val[1],
                     gpu_model |-> gpu.val[1],
                     feat_width |-> data.in_feats,
                     batch_size |-> config.batch_size,
                     fanouts |-> config.fanouts,
                     num_epoch |-> config.num_epoch,
                     num_partition |-> config.num_partition])

VARIABLES
    \* the latest probe or builder call: its name, the Config and Dataset it
    \* was given, what lscpu and nvidia-smi did during it, and its outcome
    m_op, m_config, m_data, m_lscpu, m_nvidia, m_ret

metaVars == <<m_op, m_config, m_data, m_lscpu, m_nvidia, m_ret>>

\* no probe or builder has been called
MetaInit ==
    /\ m_op = ""
    /\ m_config = Config(DefaultArgs)
    /\ m_data = LoadedDataset(10, 20, 8, FALSE)
    /\ m_lscpu = [returncode |-> 0, stdout |-> LscpuEpyc]
    /\ m_nvidia = [found |-> TRUE, returncode |-> 0, stdout |-> SmiOneGpu]
    /\ m_ret = Return(<<>>)

CallGetCpuModel(lscpu) ==
    /\ m_op' = "get_cpu_model"
    /\ m_lscpu' = lscpu
    /\ m_ret' = get_cpu_model(lscpu)
    /\ UNCHANGED <<m_config, m_data, m_nvidia>>

CallGetCudaGpuModel(nvidia) ==
    /\ m_op' = "get_cuda_gpu_model"
    /\ m_nvidia' = nvidia
    /\ m_ret' = get_cuda_gpu_model(nvidia)
    /\ UNCHANGED <<m_config, m_data, m_lscpu>>

CallGetTrainMeta(config) ==
    /\ m_op' = "get_train_meta"
    /\ m_config' = config
    /\ m_ret' = get_train_meta(config)
    /\ UNCHANGED <<m_data, m_lscpu, m_nvidia>>

CallGetFullMeta(config, data, lscpu) ==
    /\ m_op' = "get_full_meta"
    /\ m_config' = config
    /\ m_data' = data
    /\ m_lscpu' = lscpu
    /\ m_ret' = get_full_meta(config, data, lscpu)
    /\ UNCHANGED m_nvidia

CallGetMinibatchMeta(config, data, lscpu) ==
    /\ m_op' = "get_minibatch_meta"
    /\ m_config' = config
    /\ m_data' = data
    /\ m_lscpu' = lscpu
    /\ m_ret' = get_minibatch_meta(config, data, lscpu)
    /\ UNCHANGED m_nvidia

CallGetQuiverMeta(config, data, lscpu, nvidia) ==
    /\ m_op' = "get_quiver_meta"
    /\ m_config' = config
    /\ m_data' = data
    /\ m_lscpu' = lscpu
    /\ m_nvidia' = nvidia
    /\ m_ret' = get_quiver_meta(config, data, lscpu, nvidia)

\* ------------------------------------------- builders on objects with identity
\* bounds: builder calls in one explored run, Config objects constructed,
\* length a fanouts list is grown to
MaxBuilds == 3
MaxLists == 2
MaxFanouts == 4

VARIABLES
    \* the list objects that exist: b_lists[id] is the content of list id
    b_lists,
    \* the Config object the caller holds; its fanouts is a reference (id)
    \* to the list object parse_args() made
    b_config,
    \* the values of the Config's fields when it was constructed
    b_config0,
    \* the Dataset the caller holds and what lscpu and nvidia-smi do on
    \* this host
    b_data, b_lscpu, b_nvidia,
    \* the number of builder calls made
    b_n,
    \* the record object the latest builder call returned, in the caller's
    \* hands (None when it raised or before any call)
    b_ret,
    \* the latest builder call and the first one since the Config, the
    \* Dataset or the host last changed: the builder's name and its
    \* outcome as it was returned, references resolved
    b_last, b_first

buildVars == <<b_lists, b_config, b_config0, b_data, b_lscpu, b_nvidia, b_n,
               b_ret, b_last, b_first>>

\* a record as it reads: its fanouts reference resolved to the list content
View(rec) ==
    IF "fanouts" \in DOMAIN rec THEN [rec EXCEPT !.fanouts = b_lists[rec.fanouts]] ELSE rec

\* an outcome as it reads when it is returned
OutcomeView(out) == IF out.exc = "none" THEN Return(View(out.val[1])) ELSE out

\* the hosts explored: both tools working, neither installed, and a host
\* whose lscpu prints no model name
Hosts == {<<[returncode |-> 0, stdout |-> LscpuEpyc],
            [found |-> TRUE, returncode |-> 0, stdout |-> SmiOneGpu]>>,
          <<[returncode |-> 127, stdout |-> <<>>],
            [found |-> FALSE, returncode |-> 0, stdout |-> <<>>]>>,
          <<[returncode |-> 0, stdout |-> LscpuNoValue],
            [found |-> TRUE, returncode |-> 0, stdout |-> SmiTwoGpus]>>}

\* Config(args) for the default command line; list 1 is its fanouts
BuildInit ==
    /\ b_lists = <<DefaultArgs.fanouts>>
    /\ b_config = Config([DefaultArgs EXCEPT !.fanouts = 1])
    /\ b_config0 = Config(DefaultArgs)
    /\ b_data = LoadedDataset(10, 20, 8, FALSE)
    /\ b_lscpu = [returncode |-> 0, stdout |-> LscpuEpyc]
    /\ b_nvidia = [found |-> TRUE, returncode |-> 0, stdout |-> SmiOneGpu]
    /\ b_n = 0
    /\ b_ret = None
    /\ b_last = None
    /\ b_first = None

\* the caller parses another command line and constructs its Config
NewConfig(args) ==
    /\ Len(b_lists) < MaxLists
    /\ b_lists' = Append(b_lists, args.fanouts)
    /\ b_config' = Config([args EXCEPT !.fanouts = Len(b_lists) + 1])
    /\ b_config0' = Config(args)
    /\ b_first' = None
    /\ UNCHANGED <<b_data, b_lscpu, b_nvidia, b_n, b_ret, b_last>>

\* the caller loads another Dataset
NewDataset(data) ==
    /\ data # b_data
    /\ b_data' = data
    /\ b_first' = None
    /\ UNCHANGED <<b_lists, b_config, b_config0, b_lscpu, b_nvidia, b_n, b_ret, b_last>>

\* the host changes: what the two inventory tools do from now on
HostChange(lscpu, nvidia) ==
    /\ <<lscpu, nvidia>> # <<b_lscpu, b_nvidia>>
    /\ b_lscpu' = lscpu
    /\ b_nvidia' = nvidia
    /\ b_first' = None
    /\ UNCHANGED <<b_lists, b_config, b_config0, b_data, b_n, b_ret, b_last>>

\* a call of one of the four builders with the caller's Config and Dataset
\* on this host; out is what the builder gives
Build(op, out) ==
    /\ b_n < MaxBuilds
    /\ b_n' = b_n + 1
    /\ b_ret' = out.val
    /\ b_last' = Some([op |-> op, out |-> OutcomeView(out)])
    /\ b_first' = IF b_first = None THEN Some([op |-> op, out |-> OutcomeView(out)])
                  ELSE b_first
    /\ UNCHANGED <<b_lists, b_config, b_config0, b_data, b_lscpu, b_nvidia>>

BuildTrainMeta == Build("get_train_meta", get_train_meta(b_config))
BuildFullMeta == Build("get_full_meta", get_full_meta(b_config, b_data, b_lscpu))
BuildMinibatchMeta == Build("get_minibatch_meta", get_minibatch_meta(b_config, b_data, b_lscpu))
BuildQuiverMeta == Build("get_quiver_meta", get_quiver_meta(b_config, b_data, b_lscpu, b_nvidia))

\* the caller assigns an entry of the record it was returned: ret[k] = v
RecordSetItem(k, v) ==
    /\ b_ret # None
    /\ k \in DOMAIN b_ret[1]
    /\ b_ret[1][k] # v
    /\ b_ret' = Some([b_ret[1] EXCEPT ![k] = v])
    /\ UNCHANGED <<b_lists, b_config, b_config0, b_data, b_lscpu, b_nvidia, b_n,
                   b_last, b_first>>

\* the caller grows the fanouts list of the record it was returned:
\* ret["fanouts"].append(x)
RecordFanoutsAppend(x) ==
    /\ b_ret # None
    /\ "fanouts" \in DOMAIN b_ret[1]
    /\ Len(b_lists[b_ret[1].fanouts]) < MaxFanouts
    /\ b_lists' = [b_lists EXCEPT ![b_ret[1].fanouts] = Append(@, x)]
    /\ UNCHANGED <<b_config, b_config0, b_data, b_lscpu, b_nvidia, b_n, b_ret,
                   b_last, b_first>>

\* ---------------------------------------------------------- specifications
vars == <<timerVars, loggerVars, configVars, metaVars, dataVars, buildVars>>

Init == TimerInit /\ LoggerInit /\ ConfigInit /\ MetaInit /\ DataInit /\ BuildInit

TimerNext ==
    \/ TimerStart /\ UNCHANGED <<loggerVars, configVars, metaVars, dataVars, buildVars>>
    \/ TimerStop /\ UNCHANGED <<loggerVars, configVars, metaVars, dataVars, buildVars>>
    \/ TimerRecord /\ UNCHANGED <<loggerVars, configVars, metaVars, dataVars, buildVars>>

LoggerNext ==
    \/ \E v \in StepInputs : NewLogStep(v) /\ UNCHANGED <<timerVars, configVars, metaVars, dataVars, buildVars>>
    \/ \E step \in DOMAIN objs : LoggerAppend(step) /\ UNCHANGED <<timerVars, configVars, metaVars, dataVars, buildVars>>
    \/ LoggerList /\ UNCHANGED <<timerVars, configVars, metaVars, dataVars, buildVars>>
    \/ \E step \in DOMAIN objs : \E f \in WriteFields :
           SetAttr(step, f, WriteValue(f)) /\ UNCHANGED <<timerVars, configVars, metaVars, dataVars, buildVars>>
    \/ \E i \in 1..MaxSteps : \E f \in WriteFields :
           SetItem(i, f, WriteValue(f)) /\ UNCHANGED <<timerVars, configVars, metaVars, dataVars, buildVars>>
    \/ ListPop /\ UNCHANGED <<timerVars, configVars, metaVars, dataVars, buildVars>>

ConfigNext ==
    \/ \E c \in Configs : SetGlobalConfig(c) /\ UNCHANGED <<c_built, timerVars, loggerVars, metaVars, dataVars, buildVars>>
    \/ GetGlobalConfig /\ UNCHANGED <<c_built, timerVars, loggerVars, metaVars, dataVars, buildVars>>
    \/ \E a \in ArgsInputs : GetArgs(a) /\ UNCHANGED <<timerVars, loggerVars, metaVars, dataVars, buildVars>>

MetaNext ==
    \/ \E l \in LscpuRuns : CallGetCpuModel(l) /\ UNCHANGED <<timerVars, loggerVars, configVars, dataVars, buildVars>>
    \/ \E n \in NvidiaRuns : CallGetCudaGpuModel(n) /\ UNCHANGED <<timerVars, loggerVars, configVars, dataVars, buildVars>>
    \/ \E c \in Configs : CallGetTrainMeta(c) /\ UNCHANGED <<timerVars, loggerVars, configVars, dataVars, buildVars>>
    \/ \E c \in Configs : \E d \in Datasets : \E l \in LscpuRuns :
           CallGetFullMeta(c, d, l) /\ UNCHANGED <<timerVars, loggerVars, configVars, dataVars, buildVars>>
    \/ \E c \in Configs : \E d \in Datasets : \E l \in LscpuRuns :
           CallGetMinibatchMeta(c, d, l) /\ UNCHANGED <<timerVars, loggerVars, configVars, dataVars, buildVars>>
    \/ \E c \in Configs : \E d \in Datasets : \E l \in LscpuRuns : \E n \in NvidiaRuns :
           CallGetQuiverMeta(c, d, l, n) /\ UNCHANGED <<timerVars, loggerVars, configVars, dataVars, buildVars>>

DataNext ==
    \/ \E d \in DataInputs : LoadDataset(d) /\ UNCHANGED <<timerVars, loggerVars, configVars, metaVars, buildVars>>
    \/ \E dev \in Devices : DatasetTo(dev) /\ UNCHANGED <<timerVars, loggerVars, configVars, metaVars, buildVars>>

BuildNext ==
    \/ \E a \in ArgsInputs : NewConfig(a) /\ UNCHANGED <<timerVars, loggerVars, configVars, metaVars, dataVars>>
    \/ \E d \in Datasets : NewDataset(d) /\ UNCHANGED <<timerVars, loggerVars, configVars, metaVars, dataVars>>
    \/ \E h \in Hosts : HostChange(h[1], h[2]) /\ UNCHANGED <<timerVars, loggerVars, configVars, metaVars, dataVars>>
    \/ BuildTrainMeta /\ UNCHANGED <<timerVars, loggerVars, configVars, metaVars, dataVars>>
    \/ BuildFullMeta /\ UNCHANGED <<timerVars, loggerVars, configVars, metaVars, dataVars>>
    \/ BuildMinibatchMeta /\ UNCHANGED <<timerVars, loggerVars, configVars, metaVars, dataVars>>
    \/ BuildQuiverMeta /\ UNCHANGED <<timerVars, loggerVars, configVars, metaVars, dataVars>>
    \/ RecordSetItem("num_epoch", 99) /\ UNCHANGED <<timerVars, loggerVars, configVars, metaVars, dataVars>>
    \/ RecordFanoutsAppend(5) /\ UNCHANGED <<timerVars, loggerVars, configVars, metaVars, dataVars>>

Next == TimerNext \/ LoggerNext \/ ConfigNext \/ MetaNext \/ DataNext \/ BuildNext

SpecTimer == Init /\ [][TimerNext]_vars
SpecLogger == Init /\ [][LoggerNext]_vars
SpecConfig == Init /\ [][ConfigNext]_vars
SpecMeta == Init /\ [][MetaNext]_vars
SpecData == Init /\ [][DataNext]_vars
SpecBuild == Init /\ [][BuildNext]_vars

\* ------------------------------------------------------------ Timer claims
\* this step is a Timer call of the method op
Called(op) ==
    /\ Len(t_trace') = Len(t_trace) + 1
    /\ t_trace'[Len(t_trace')].op = op

\* the i-th Timer call was op and returned
Returned(i, op) ==
    /\ i \in DOMAIN t_trace
    /\ t_trace[i].op = op
    /\ t_trace[i].exc = "none"

\* the i-th Timer call was op and raised the misuse error
Rejected(i, op) ==
    /\ i \in DOMAIN t_trace
    /\ t_trace[i].op = op
    /\ t_trace[i].exc = "RuntimeError"

\* C1: start() on a Running Timer (start_time set) raises the misuse error
\* and leaves start_time, last_record and end_time as they were.
C1_StartOnRunningRejected ==
    [][(Called("start") /\ start_time # None)
         => /\ t_trace'[Len(t_trace')].exc = "RuntimeError"
            /\ start_time' = start_time
            /\ last_record' = last_record
            /\ end_time' = end_time]_vars

\* a start() was rejected on a Timer that was started and recorded on
C1_Witness ==
    \E i \in DOMAIN t_trace :
        /\ Returned(i, "start")
        /\ Returned(i + 1, "record")
        /\ Rejected(i + 2, "start")
        /\ start_time # None

\* C2: a stop() that returns gives an elapsed time >= 0 and leaves the Timer
\* Idle, and a start() issued right after it returns without raising.
C2_StopThenStart ==
    /\ [](\A i \in DOMAIN t_trace :
            Returned(i, "stop") =>
              /\ t_trace[i].ret[1] >= 0
              /\ (i = Len(t_trace) => start_time = None))
    /\ [][(Len(t_trace) > 0 /\ Returned(Len(t_trace), "stop") /\ Called("start"))
            => t_trace'[Len(t_trace')].exc = "none"]_vars

\* start, record, a stop that measured some time, and a start that succeeded
C2_Witness ==
    \E i \in DOMAIN t_trace :
        /\ Returned(i, "start")
        /\ Returned(i + 1, "record")
        /\ Returned(i + 2, "stop")
        /\ t_trace[i + 2].ret[1] > 0
        /\ Returned(i + 3, "start")

\* C3: record() and stop() on an Idle Timer raise the misuse error, on a
\* new Timer and on one that stop() has returned to Idle.
C3_IdleRejectsRecordAndStop ==
    [][(start_time = None /\ (Called("record") \/ Called("stop")))
         => t_trace'[Len(t_trace')].exc = "RuntimeError"]_vars

\* record() was rejected on the new Timer and then, after a start/stop pair,
\* stop() was rejected on the Timer that stop() had made Idle
C3_Witness ==
    /\ Rejected(1, "record")
    /\ \E i \in DOMAIN t_trace :
        /\ Returned(i, "start")
        /\ Returned(i + 1, "stop")
        /\ Rejected(i + 2, "stop")
        /\ Rejected(i + 3, "record")

\* C4: record() on a Running Timer returns a delta >= 0, keeps the Timer
\* Running with the start timestamp start() set, and moves only last_record.
C4_RecordKeepsRunning ==
    [][(Called("record") /\ start_time # None)
         => /\ t_trace'[Len(t_trace')].exc = "none"
            /\ t_trace'[Len(t_trace')].ret[1] >= 0
            /\ start_time' = start_time
            /\ end_time' = end_time
            /\ last_record' # None]_vars

\* three consecutive record() calls returned, one with a positive delta and
\* with last_record moved past the start timestamp
C4_Witness ==
    \E i \in DOMAIN t_trace :
        /\ Returned(i, "record")
        /\ Returned(i + 1, "record")
        /\ Returned(i + 2, "record")
        /\ t_trace[i + 1].ret[1] > 0
        /\ start_time # None
        /\ last_record[1] > start_time[1]

\* ----------------------------------------------------------- Logger claims
\* C5: list() after appends that no assignment to a stored LogStep follows
\* returns one record per append, in append order, each mapping every
\* LogStep field name to the value the step was appended with.
C5_AppendThenList ==
    (l_op = "list" /\ ~dirty) =>
        /\ l_ret = Some(appended)
        /\ \A i \in DOMAIN l_ret[1] : DOMAIN l_ret[1][i] = FieldNames

\* list() returned two records whose epochs repeat or decrease
C5_Witness ==
    /\ l_op = "list"
    /\ ~dirty
    /\ Len(appended) = 2
    /\ l_ret # None
    /\ Len(l_ret[1]) = 2
    /\ l_ret[1][1].epoch >= l_ret[1][2].epoch
    /\ l_ret[1][1] # l_ret[1][2]

\* C6: two list() calls with no append between them return equal sequences
\* of records, whatever the caller does in between with the list and the
\* records the earlier call returned.
C6_ListRepeatable == (l_first # None /\ l_ret # None) => l_ret = l_first

\* this step is a list() call
ListStep == l_op' = "list" /\ (l_op # "list" \/ held' # held \/ l_ret' # l_ret)

\* list() itself leaves Logger.steps and every LogStep as they were
ListHasNoSideEffect == [][ListStep => (steps' = steps /\ objs' = objs)]_vars

\* C7: the record at position i of every projection equals the values the
\* i-th appended LogStep was appended with: nothing is removed, reordered
\* or changed after its append.
C7_AppendOnlyImmutable == Deref(steps) = appended

\* --------------------------------------------------------- Config claim
\* C8: get_global_config() returns the value of the latest
\* set_global_config call, None before any, and does not change gconfig.
C8_GetReturnsLastSet ==
    /\ [](c_op = "get" =>
            c_ret = IF registered = <<>> THEN None
                    ELSE Some(registered[Len(registered)]))
    /\ [][c_op' = "get" => gconfig' = gconfig]_vars

\* a get after two registrations of different Configs returned the second
C8_Witness ==
    /\ c_op = "get"
    /\ Len(registered) >= 2
    /\ registered[Len(registered)] # registered[Len(registered) - 1]
    /\ c_ret = Some(registered[Len(registered)])

\* ------------------------------------------------ probe and builder claims
\* lscpu is not installed or exited non-zero during the latest call
CpuToolFailed == m_lscpu.returncode # 0

\* nvidia-smi is not installed or exited non-zero during the latest call
GpuToolFailed == ~m_nvidia.found \/ m_nvidia.returncode # 0

CpuBuilders == {"get_full_meta", "get_minibatch_meta", "get_quiver_meta"}

\* C9: when a probe's tool is absent or exits non-zero the probe returns
\* without raising, and every builder that uses it still returns its record
\* with the affected field empty.
C9_ProbeFailureNonFatal ==
    /\ (m_op = "get_cpu_model" /\ CpuToolFailed) => m_ret.exc = "none"
    /\ (m_op = "get_cuda_gpu_model" /\ GpuToolFailed) => m_ret.exc = "none"
    /\ (m_op \in CpuBuilders /\ CpuToolFailed) =>
           (m_ret.exc = "none" /\ m_ret.val[1].cpu_model = <<>>)
    /\ (m_op = "get_quiver_meta" /\ GpuToolFailed) =>
           (m_ret.exc = "none" /\ m_ret.val[1].gpu_model = <<>>)

\* C10: get_minibatch_meta and get_quiver_meta return, for every Config and
\* Dataset, a record with the Config's batch_size, fanouts, num_epoch,
\* num_partition and graph_name, the graph's node and edge counts and the
\* Dataset's feature width.
C10_MinibatchRecord ==
    m_op \in {"get_minibatch_meta", "get_quiver_meta"} =>
        /\ m_ret.exc = "none"
        /\ m_ret.val[1].batch_size = m_config.batch_size
        /\ m_ret.val[1].fanouts = m_config.fanouts
        /\ m_ret.val[1].num_epoch = m_config.num_epoch
        /\ m_ret.val[1].num_partition = m_config.num_partition
        /\ m_ret.val[1].graph_name = m_config.graph_name
        /\ m_ret.val[1].num_node = m_data.graph.num_nodes
        /\ m_ret.val[1].num_edge = m_data.graph.num_edges
        /\ m_ret.val[1].feat_width = m_data.in_feats

\* whenever one of the two builders does return, its record is as C10 says
MinibatchRecordWhenReturned ==
    (m_op \in {"get_minibatch_meta", "get_quiver_meta"} /\ m_ret.exc = "none") =>
        /\ m_ret.val[1].batch_size = m_config.batch_size
        /\ m_ret.val[1].fanouts = m_config.fanouts
        /\ m_ret.val[1].num_epoch = m_config.num_epoch
        /\ m_ret.val[1].num_partition = m_config.num_partition
        /\ m_ret.val[1].graph_name = m_config.graph_name
        /\ m_ret.val[1].num_node = m_data.graph.num_nodes
        /\ m_ret.val[1].num_edge = m_data.graph.num_edges
        /\ m_ret.val[1].feat_width = m_data.in_feats

\* ---------------------------------------------------- further Timer claims
\* C13: stop() on a Running Timer returns its own clock reading minus the
\* start timestamp the matching start() stored, however many record() calls
\* came in between, and leaves start_time, last_record and end_time unset.
C13_StopMeasuresFromStart ==
    [][(Called("stop") /\ start_time # None)
         => /\ t_trace'[Len(t_trace')].exc = "none"
            /\ t_trace'[Len(t_trace')].ret = Some(now' - start_time[1])
            /\ start_time' = None
            /\ last_record' = None
            /\ end_time' = None]_vars

\* a stop() returned after two record() calls that had moved last_record
C13_Witness ==
    \E i \in DOMAIN t_trace :
        /\ Returned(i, "start")
        /\ Returned(i + 1, "record")
        /\ Returned(i + 2, "record")
        /\ t_trace[i + 1].ret[1] > 0
        /\ Returned(i + 3, "stop")
        /\ t_trace[i + 3].ret[1] > t_trace[i + 1].ret[1] + t_trace[i + 2].ret[1]
        /\ start_time = None

\* the latest start() that returned
LastStart == SetMax({i \in DOMAIN t_trace : Returned(i, "start")})

\* the sum of the deltas the record() calls i..n returned
RECURSIVE DeltaSum(_, _)
DeltaSum(i, n) ==
    IF i > n THEN 0
    ELSE (IF Returned(i, "record") THEN t_trace[i].ret[1] ELSE 0) + DeltaSum(i + 1, n)

\* C14: the deltas of the record() calls since start() tile the time since
\* start(): their sum equals the last-record timestamp after the latest
\* record() minus the start timestamp.
C14_DeltasTile ==
    (start_time # None /\ \E i \in DOMAIN t_trace : i > LastStart /\ Returned(i, "record"))
        => DeltaSum(LastStart + 1, Len(t_trace)) = last_record[1] - start_time[1]

\* the sum of the deltas never exceeds the time between the two timestamps
DeltasWithinSpan ==
    (start_time # None /\ \E i \in DOMAIN t_trace : i > LastStart /\ Returned(i, "record"))
        => DeltaSum(LastStart + 1, Len(t_trace)) <= last_record[1] - start_time[1]

\* C17: between operations the Timer is Idle with start_time, last_record
\* and end_time all unset, or Running with start_time and last_record set
\* and end_time unset.
C17_IdleOrRunning ==
    \/ (start_time = None /\ last_record = None /\ end_time = None)
    \/ (start_time # None /\ last_record # None /\ end_time = None)

\* a Running Timer after a rejected record() and a rejected start()
C17_Witness ==
    /\ Rejected(1, "record")
    /\ Returned(2, "start")
    /\ Rejected(3, "start")
    /\ Returned(4, "record")
    /\ start_time # None
    /\ last_record # None
    /\ last_record[1] > start_time[1]

\* C18: a rejected record() or stop() leaves the three timestamps unset,
\* start() succeeds exactly when the Timer is Idle, and a stop() right
\* after a start() that succeeded succeeds.
C18_MisuseDoesNotWedge ==
    /\ [][(start_time = None /\ (Called("record") \/ Called("stop")))
            => (start_time' = None /\ last_record' = None /\ end_time' = None)]_vars
    /\ [][Called("start")
            => (t_trace'[Len(t_trace')].exc = "none" <=> start_time = None)]_vars
    /\ [][(Len(t_trace) > 0 /\ Returned(Len(t_trace), "start") /\ Called("stop"))
            => t_trace'[Len(t_trace')].exc = "none"]_vars

\* after a rejected record() and a rejected stop(), start() and then stop()
\* succeeded
C18_Witness ==
    \E i \in DOMAIN t_trace :
        /\ Rejected(i, "record")
        /\ Rejected(i + 1, "stop")
        /\ Returned(i + 2, "start")
        /\ Returned(i + 3, "stop")

\* ----------------------------------------------------------- Dataset claim
\* C11: Dataset.to(device) puts label, train_mask, val_mask and test_mask
\* on the target device and leaves graph, feat, num_classes and in_feats as
\* they were, also for a Dataset without feature tensor.
C11_ToMovesLabelAndMasks ==
    d_op = "to" =>
        /\ d_data.label = [device |-> d_device, shape |-> d_before.label.shape]
        /\ d_data.train_mask = [device |-> d_device, shape |-> d_before.train_mask.shape]
        /\ d_data.val_mask = [device |-> d_device, shape |-> d_before.val_mask.shape]
        /\ d_data.test_mask = [device |-> d_device, shape |-> d_before.test_mask.shape]
        /\ d_data.graph = d_before.graph
        /\ d_data.feat = d_before.feat
        /\ d_data.num_classes = d_before.num_classes
        /\ d_data.in_feats = d_before.in_feats

\* a Dataset with a feature tensor was moved from one GPU to another
C11_Witness ==
    /\ d_op = "to"
    /\ d_device = "cuda:1"
    /\ d_before.label.device = "cuda:0"
    /\ d_data.label.device = "cuda:1"
    /\ d_data.feat # None
    /\ d_data.feat[1].device = "cpu"

\* --------------------------------------------------------- probe claims
\* the number of lines a tool printed, each ended by a newline
LineCount(out) == Cardinality({i \in DOMAIN out : out[i] = "\n"})

\* C15: get_cuda_gpu_model() returns as many strings as nvidia-smi printed
\* lines, and the empty list when it printed none, exited non-zero or is
\* not installed.
C15_OneNamePerGpuLine ==
    m_op = "get_cuda_gpu_model" =>
        /\ m_ret.exc = "none"
        /\ Len(m_ret.val[1]) = IF GpuToolFailed THEN 0 ELSE LineCount(m_nvidia.stdout)

\* the lines of out that hold the key "Model name:"
ModelNameLines(out) ==
    LET lines == Split(out, "\n")
    IN  {i \in DOMAIN lines : Find(lines[i], ModelNameKey) # -1}

\* the text after the key on the first such line, without the white space
\* around it
ModelNameValue(out) ==
    LET lines == Split(out, "\n")
        line == lines[SetMin(ModelNameLines(out))]
    IN  Strip(SliceFrom(line, Find(line, ModelNameKey) + Len(ModelNameKey)))

\* C16: get_cpu_model() returns what follows "Model name:" on that line of
\* the lscpu output, stripped, and never text of another line; without such
\* a line it returns an empty or placeholder value, no piece of the output.
C16_ModelNameOfItsLine ==
    (m_op = "get_cpu_model" /\ ~CpuToolFailed) =>
        /\ m_ret.exc = "none"
        /\ IF ModelNameLines(m_lscpu.stdout) # {}
           THEN m_ret.val[1] = ModelNameValue(m_lscpu.stdout)
           ELSE m_ret.val[1] = <<>> \/ Find(m_lscpu.stdout, m_ret.val[1]) = -1

\* ---------------------------------------------------- Config.__init__ claim
\* C19: the Config that get_args() builds from a complete set of parsed
\* arguments has every declared field, set to the argument of that name.
C19_DeclaredFieldsSet ==
    c_built # None =>
        \A f \in DeclaredFields :
            /\ f \in DOMAIN c_built[1].config
            /\ c_built[1].config[f] = c_built[1].args[f]

\* every declared field but world_size is set to the argument of its name
DeclaredFieldsButWorldSize ==
    c_built # None =>
        /\ "world_size" \in DOMAIN c_built[1].args
        /\ \A f \in DeclaredFields \ {"world_size"} :
            /\ f \in DOMAIN c_built[1].config
            /\ c_built[1].config[f] = c_built[1].args[f]

\* ------------------------------------------------------------ builder claim
\* the Config as it reads now
ConfigView == [b_config EXCEPT !.fanouts = b_lists[b_config.fanouts]]

\* C12: with the Config, the Dataset and the probe results unchanged, a
\* later builder call returns what the first call of that builder returned,
\* and neither a call nor anything done to a returned record changes the
\* Config.
C12_BuildersPure ==
    /\ ConfigView = b_config0
    /\ (b_first # None /\ b_last[1].op = b_first[1].op) => b_last[1].out = b_first[1].out

\* a builder call changes neither the Config, the Dataset nor gconfig
BuilderCallHasNoSideEffect ==
    [][b_n' # b_n => /\ b_config' = b_config
                     /\ b_lists' = b_lists
                     /\ b_data' = b_data
                     /\ gconfig' = gconfig]_vars

\* while the Config's fanouts list is as it was constructed, a later call
\* returns what the first call of that builder returned
ResultsAgreeWhileListIntact ==
    (b_first # None /\ b_last[1].op = b_first[1].op
       /\ b_lists[b_config.fanouts] = b_config0.fanouts)
        => b_last[1].out = b_first[1].out

====
